---- MODULE Spec2Model ----
(***************************************************************************)
(* A model of demo.py, the immunization-strategy demo:                     *)
(*                                                                         *)
(*   read_in_args -> build_graph -> build_cqm ->                           *)
(*   run_cqm_and_collect_solutions -> process_sample                       *)
(*                                                                         *)
(* The pipeline is checked in four pieces, each with its own               *)
(* specification, because the graphs build_graph asks for (1000 nodes and  *)
(* more) are far larger than the graphs on which the CQM can be            *)
(* enumerated:                                                             *)
(*                                                                         *)
(*   SpecGraph    build_graph on every parsed command line of a bounded    *)
(*                set of integers around the limits the code tests         *)
(*   SpecCqm      build_cqm, the sample that comes back, process_sample,   *)
(*                on every small graph and every 0/1 sample                *)
(*   SpecProcess  process_sample on every small graph and every sample     *)
(*                with one variable set per node                           *)
(*   SpecRun      run_cqm_and_collect_solutions on every small sample set  *)
(*                                                                         *)
(* --prob is a float in the program; it is modelled in hundredths, so      *)
(* 0.25 is 25 and the test 'prob < 0 or prob > 1' is 'prob < 0 or          *)
(* prob > 100'.                                                            *)
(***************************************************************************)
EXTENDS Integers, Sequences, FiniteSets, TLC

VARIABLES
    pc,          \* where the pipeline stands
    argv,        \* the arguments as read_in_args parsed them
    args,        \* the args namespace, which build_graph assigns to
    stdout,      \* what build_graph printed, in order
    call,        \* the networkx generator call build_graph made
    G,           \* the graph: its nodes in iteration order and its edges
    cqm,         \* the model build_cqm returned
    sample,      \* the sample handed to process_sample
    results,     \* what process_sample returned
    sampleset,   \* what sampler.sample_cqm returned
    ncalls,      \* how many times sampler.sample_cqm was called
    ret          \* what run_cqm_and_collect_solutions returned

vars == <<pc, argv, args, stdout, call, G, cqm, sample, results,
          sampleset, ncalls, ret>>

(***************************************************************************)
(* Bounds.                                                                 *)
(***************************************************************************)
MaxNeg == 3        \* command-line integers go down to -MaxNeg
MaxSmall == 7      \* small command-line integers go up to MaxSmall
Window == 2        \* and lie within Window of 1000 and of max_vars
MaxNodes == 3      \* graphs given to build_cqm have 1..MaxNodes nodes
MaxEdges == 2      \* and at most MaxEdges edges (self-loops included)
MaxSamples == 3    \* a sample set holds at most MaxSamples samples
MaxEnergy == 2     \* with energies 0..MaxEnergy

(***************************************************************************)
(* build_graph                                                             *)
(***************************************************************************)
max_vars == 5000 \div 3

min(a, b) == IF a <= b THEN a ELSE b

GraphTypes == {"karate", "internet", "rand-reg", "ER", "SF"}

Around(c) == (c - Window)..(c + Window)
SmallInts == (0 - MaxNeg)..MaxSmall
NodeVals == SmallInts \cup Around(1000) \cup Around(max_vars)
DegreeVals == SmallInts \cup Around(1000)
NewEdgeVals == SmallInts \cup Around(1000)
ProbVals == {-25, 0, 25, 100, 120}

Args == [graph : GraphTypes, nodes : NodeVals, degree : DegreeVals,
         prob : ProbVals, new_edges : NewEdgeVals]

\* What one branch of build_graph leaves behind: the namespace, the lines
\* printed and the generator call.
Built(a, out, fn, fnargs) ==
    [args |-> a, stdout |-> out, call |-> [fn |-> fn, args |-> fnargs]]

Karate(a) ==
    Built(a, <<"Reading in karate graph...">>, "karate_club_graph", <<>>)

\* The upper limit taken as exclusive.
InternetSizeBad_Exclusive(a) == a.nodes < 1000 \/ a.nodes >= max_vars

InternetSizeBad(a) == a.nodes < 1000 \/ a.nodes > max_vars

Internet(a) ==
    LET bad == InternetSizeBad(a)
        a1 == IF bad THEN [a EXCEPT !.nodes = 1000] ELSE a
    IN  Built(a1,
              (IF bad THEN <<"Size for internet graph must be between 1000 and max_vars. Setting size to 1000.">>
                      ELSE <<>>)
              \o <<"Reading in internet graph of size">>,
              "random_internet_as_graph", <<a1.nodes>>)

\* demo.py:57-58: the size test of the rand-reg branch prints and assigns
\* nothing.
RandRegSize(a) ==
    IF a.nodes < 1 \/ a.nodes > max_vars
    THEN [args |-> a,
          stdout |-> <<"Size for random regular graph must be between 1 and max_vars. Setting size to 1000.">>]
    ELSE [args |-> a, stdout |-> <<>>]

\* The lower limit of the degree left untested.
DegreeBad_NoLower(a) == a.degree >= a.nodes

DegreeBad(a) == a.degree < 0 \/ a.degree >= a.nodes

RandRegDegree(s) ==
    IF DegreeBad(s.args)
    THEN [args |-> [s.args EXCEPT !.degree = min(4, s.args.nodes - 1)],
          stdout |-> Append(s.stdout, "Degree must be between 0 and n-1. Setting size to min(4, n-1).")]
    ELSE s

\* demo.py:62-73. Python's % takes the sign of the divisor, as TLA+'s does.
RandRegParity(s) ==
    LET a == s.args
        o == Append(s.stdout, "Requirement: n*d must be even.")
    IN  IF (a.degree * a.nodes) % 2 = 1
        THEN IF a.degree > 0
             THEN [args |-> [a EXCEPT !.degree = a.degree - 1],
                   stdout |-> Append(o, "Setting degree to")]
             ELSE IF a.nodes - 1 > a.degree
             THEN [args |-> [a EXCEPT !.nodes = a.nodes - 1],
                   stdout |-> Append(o, "Setting nodes to")]
             ELSE [args |-> [a EXCEPT !.nodes = 1000, !.degree = 4],
                   stdout |-> Append(o, "Setting nodes to 1000 and degree to 4.")]
        ELSE s

RandReg(a) ==
    LET s == RandRegParity(RandRegDegree(RandRegSize(a)))
    IN  Built(s.args,
              Append(s.stdout, "Generating random regular graph..."),
              "random_regular_graph", <<s.args.degree, s.args.nodes>>)

SizeBad(a) == a.nodes < 1 \/ a.nodes > max_vars

ER(a) ==
    LET bad == SizeBad(a)
        a1 == IF bad THEN [a EXCEPT !.nodes = 1000] ELSE a
        badp == a1.prob < 0 \/ a1.prob > 100
        a2 == IF badp THEN [a1 EXCEPT !.prob = 25] ELSE a1
    IN  Built(a2,
              (IF bad THEN <<"Size for ER graph must be between 1 and max_vars. Setting size to 1000.">>
                      ELSE <<>>)
              \o (IF badp THEN <<"Probability must be between 0 and 1. Setting prob to 0.25.">>
                          ELSE <<>>)
              \o <<"Generating Erdos-Renyi graph...">>,
              "erdos_renyi_graph", <<a2.nodes, a2.prob>>)

NewEdgesBad(a) == a.new_edges < 0 \/ a.new_edges > a.nodes

SF(a) ==
    LET bad == SizeBad(a)
        a1 == IF bad THEN [a EXCEPT !.nodes = 1000] ELSE a
        bade == NewEdgesBad(a1)
        a2 == IF bade THEN [a1 EXCEPT !.new_edges = 5] ELSE a1
    IN  Built(a2,
              (IF bad THEN <<"Size for SF graph must be between 1 and max_vars. Setting size to 1000.">>
                      ELSE <<>>)
              \o (IF bade THEN <<"Number of edges must be between 1 and n. Setting to 5.">>
                          ELSE <<>>)
              \o <<"Generating Barabasi-Albert scale-free graph...">>,
              "barabasi_albert_graph", <<a2.nodes, a2.new_edges>>)

\* Values of the variables a specification does not use.
NoArgs == [graph |-> "karate", nodes |-> 1000, degree |-> 4, prob |-> 25,
           new_edges |-> 4]
NoCall == [fn |-> "", args |-> <<>>]
NoGraph == [nodes |-> <<>>, edges |-> {}]
NoCqm == [variables |-> <<>>, objective |-> <<>>, discrete |-> <<>>,
          g1 |-> <<>>, g2 |-> <<>>, edge_sum |-> <<>>]
NoSample == <<>>
NoResults == [group_1 |-> <<>>, group_2 |-> <<>>, sep_group |-> <<>>,
              illegal_edges |-> <<>>]
NoRet == [id |-> 0, energy |-> 0, is_feasible |-> FALSE]

\* The state after read_in_args: argparse admits only the five graph types
\* (choices=...), so the final else of build_graph is never taken.
InitGraph ==
    /\ pc = "parsed"
    /\ argv \in Args
    /\ args = argv
    /\ stdout = <<>>
    /\ call = NoCall
    /\ G = NoGraph
    /\ cqm = NoCqm
    /\ sample = NoSample
    /\ results = NoResults
    /\ sampleset = <<>>
    /\ ncalls = 0
    /\ ret = NoRet

BuildGraphWith(b) ==
    /\ pc' = "graph"
    /\ args' = b.args
    /\ stdout' = b.stdout
    /\ call' = b.call
    /\ UNCHANGED <<argv, G, cqm, sample, results, sampleset, ncalls, ret>>

BuildKarate ==
    /\ pc = "parsed" /\ args.graph = "karate"
    /\ BuildGraphWith(Karate(args))

BuildInternet ==
    /\ pc = "parsed" /\ args.graph = "internet"
    /\ BuildGraphWith(Internet(args))

BuildRandReg ==
    /\ pc = "parsed" /\ args.graph = "rand-reg"
    /\ BuildGraphWith(RandReg(args))

BuildER ==
    /\ pc = "parsed" /\ args.graph = "ER"
    /\ BuildGraphWith(ER(args))

BuildSF ==
    /\ pc = "parsed" /\ args.graph = "SF"
    /\ BuildGraphWith(SF(args))

NextGraph ==
    \/ BuildKarate
    \/ BuildInternet
    \/ BuildRandReg
    \/ BuildER
    \/ BuildSF

SpecGraph == InitGraph /\ [][NextGraph]_vars

(***************************************************************************)
(* Graphs.  A networkx graph keeps its nodes in insertion order, and       *)
(* G.nodes() iterates in that order; the labels are 0..n-1 but the order   *)
(* need not be ascending (random_regular_graph adds its nodes as its edge  *)
(* set yields them).  An edge is the set of its endpoints, a self-loop a   *)
(* singleton.                                                              *)
(***************************************************************************)
Perms(n) ==
    {p \in [1..n -> 0..(n - 1)] : \A i, j \in 1..n : p[i] = p[j] => i = j}

Pairs(n) == {{u, v} : u, v \in 0..(n - 1)}

Graphs ==
    UNION {[nodes : Perms(n),
            edges : {E \in SUBSET Pairs(n) : Cardinality(E) <= MaxEdges}]
           : n \in 1..MaxNodes}

NodeSet(g) == {g.nodes[i] : i \in 1..Len(g.nodes)}

Pos(g, v) == CHOOSE i \in 1..Len(g.nodes) : g.nodes[i] = v

\* G.edges(): every edge once, as (u, v) with u the endpoint met first in
\* node order.
Edges(g) ==
    LET n == Len(g.nodes)
        all == [k \in 1..(n * n) |->
                   <<g.nodes[((k - 1) \div n) + 1], g.nodes[((k - 1) % n) + 1]>>]
        Test(e) == /\ Pos(g, e[1]) <= Pos(g, e[2])
                   /\ {e[1], e[2]} \in g.edges
    IN  SelectSeq(all, Test)

(***************************************************************************)
(* Variable names.  f'x_{name}_{i}' is modelled by the parts that          *)
(* key.split("_") gives back: "x", the node and the group.                 *)
(***************************************************************************)
num_groups == 3

Key(name, i) == <<"x", name, i>>

\* int(v[1]) and int(v[-1]) of v = key.split("_")
KeyGroup(key) == key[Len(key)]

\* The group index read where the node is.
KeyNode_Last(key) == key[Len(key)]

KeyNode(key) == key[2]

RECURSIVE SumSeq(_)
SumSeq(q) == IF q = <<>> THEN 0 ELSE Head(q) + SumSeq(Tail(q))

(***************************************************************************)
(* build_cqm                                                               *)
(***************************************************************************)
\* vars[i][k], i counted from 0 as in the source: the list follows G.nodes()
Vars(g, i, k) == Key(g.nodes[i + 1], k)

\* demo.py:138-140: the edge (a, b) indexes the list vars by node label
EdgeTerm(g, e) ==
    <<Vars(g, e[1], 0), Vars(g, e[2], 1), Vars(g, e[1], 1), Vars(g, e[2], 0)>>

build_cqm(g) ==
    LET n == Len(g.nodes)
        NotLoop(e) == e[1] # e[2]
        es == SelectSeq(Edges(g), NotLoop)
    IN  [variables |-> [m \in 1..(num_groups * n) |->
                           Vars(g, (m - 1) \div num_groups, (m - 1) % num_groups)],
         objective |-> [i \in 1..n |-> Vars(g, i - 1, 2)],
         discrete |-> [v \in 1..n |->
                          {Key(v - 1, i) : i \in 0..(num_groups - 1)}],
         g1 |-> [i \in 1..n |-> Vars(g, i - 1, 0)],
         g2 |-> [i \in 1..n |-> Vars(g, i - 1, 1)],
         edge_sum |-> [j \in 1..Len(es) |-> EdgeTerm(g, es[j])]]

VariableSet(c) == {c.variables[m] : m \in 1..Len(c.variables)}

Values(s, q) == [i \in 1..Len(q) |-> s[q[i]]]

\* Whether sample s satisfies every constraint of c: the discrete ones
\* (exactly one of the set is 1), |G1| = |G2| and 'cross edges'.
Satisfies(c, s) ==
    /\ \A v \in 1..Len(c.discrete) :
          Cardinality({k \in c.discrete[v] : s[k] = 1}) = 1
    /\ SumSeq(Values(s, c.g1)) - SumSeq(Values(s, c.g2)) = 0
    /\ SumSeq([j \in 1..Len(c.edge_sum) |->
                  s[c.edge_sum[j][1]] * s[c.edge_sum[j][2]]
                  + s[c.edge_sum[j][3]] * s[c.edge_sum[j][4]]]) = 0

(***************************************************************************)
(* process_sample                                                          *)
(***************************************************************************)
\* The keys of a sample of g, in the order the variables were created.
SampleKeys(g) ==
    [m \in 1..(num_groups * Len(g.nodes)) |->
        Key(g.nodes[((m - 1) \div num_groups) + 1], (m - 1) % num_groups)]

IsIllegal(s, e) ==
    \/ s[Key(e[1], 0)] * s[Key(e[2], 1)] = 1
    \/ s[Key(e[1], 1)] * s[Key(e[2], 0)] = 1

process_sample(g, s) ==
    LET keys == SampleKeys(g)
        Results(k) ==
            LET In(key) == s[key] = 1 /\ KeyGroup(key) = k
                ks == SelectSeq(keys, In)
            IN  [i \in 1..Len(ks) |-> KeyNode(ks[i])]
        Illegal(e) == IsIllegal(s, e)
    IN  [group_1 |-> Results(0),
         group_2 |-> Results(1),
         sep_group |-> Results(2),
         illegal_edges |-> SelectSeq(Edges(g), Illegal)]

\* The samples with exactly one of x_v_0, x_v_1, x_v_2 set for every node v
OneHot(g, s) ==
    \A v \in NodeSet(g) :
        Cardinality({i \in 0..(num_groups - 1) : s[Key(v, i)] = 1}) = 1

\* The samples of g that put every node in one group: one per choice c of
\* a group for each node.
OneHotSamples(g) ==
    {[key \in {SampleKeys(g)[m] : m \in 1..Len(SampleKeys(g))} |->
         IF c[key[2]] = key[3] THEN 1 ELSE 0]
     : c \in [NodeSet(g) -> 0..(num_groups - 1)]}

InitCqm ==
    /\ pc = "graph"
    /\ G \in Graphs
    /\ argv = NoArgs
    /\ args = NoArgs
    /\ stdout = <<>>
    /\ call = NoCall
    /\ cqm = NoCqm
    /\ sample = NoSample
    /\ results = NoResults
    /\ sampleset = <<>>
    /\ ncalls = 0
    /\ ret = NoRet

BuildCqm ==
    /\ pc = "graph"
    /\ cqm' = build_cqm(G)
    /\ pc' = "cqm"
    /\ UNCHANGED <<argv, args, stdout, call, G, sample, results, sampleset,
                   ncalls, ret>>

\* The sample run_cqm_and_collect_solutions hands back: the solver's, which
\* is feasible or, when it found none, is not.
CollectSample ==
    /\ pc = "cqm"
    /\ sample' \in [VariableSet(cqm) -> {0, 1}]
    /\ pc' = "sample"
    /\ UNCHANGED <<argv, args, stdout, call, G, cqm, results, sampleset,
                   ncalls, ret>>

ProcessSample ==
    /\ pc = "sample"
    /\ results' = process_sample(G, sample)
    /\ pc' = "done"
    /\ UNCHANGED <<argv, args, stdout, call, G, cqm, sample, sampleset,
                   ncalls, ret>>

NextCqm ==
    \/ BuildCqm
    \/ CollectSample
    \/ ProcessSample

SpecCqm == InitCqm /\ [][NextCqm]_vars

\* process_sample alone, on every sample that sets one variable per node
InitProcess ==
    /\ pc = "sample"
    /\ G \in Graphs
    /\ sample \in OneHotSamples(G)
    /\ argv = NoArgs
    /\ args = NoArgs
    /\ stdout = <<>>
    /\ call = NoCall
    /\ cqm = NoCqm
    /\ results = NoResults
    /\ sampleset = <<>>
    /\ ncalls = 0
    /\ ret = NoRet

NextProcess == ProcessSample

SpecProcess == InitProcess /\ [][NextProcess]_vars

(***************************************************************************)
(* run_cqm_and_collect_solutions.  A sample set is the sequence of the     *)
(* solver's samples, each with its energy and its is_feasible flag; id is  *)
(* the sample's place in the set.                                          *)
(***************************************************************************)
Sample(i, d) == [id |-> i, energy |-> d.energy, is_feasible |-> d.is_feasible]

SampleSets ==
    UNION {{[i \in 1..n |-> Sample(i, f[i])] :
               f \in [1..n -> [energy : 0..MaxEnergy, is_feasible : BOOLEAN]]}
           : n \in 0..MaxSamples}

\* sampleset.filter(pred) without the test: every sample is kept
Filter_KeepAll(ss) == ss

\* sampleset.filter(lambda d: d.is_feasible): the order is kept
Filter(ss) ==
    LET Pred(d) == d.is_feasible
    IN  SelectSeq(ss, Pred)

\* sampleset.first: a sample of lowest energy. Which one of several with
\* the same energy the sort puts first is not fixed, so all are returned.
First(ss) ==
    {ss[i] : i \in {j \in 1..Len(ss) :
                       \A k \in 1..Len(ss) : ss[j].energy <= ss[k].energy}}

InitRun ==
    /\ pc = "cqm"
    /\ sampleset = <<>>
    /\ ncalls = 0
    /\ ret = NoRet
    /\ argv = NoArgs
    /\ args = NoArgs
    /\ stdout = <<>>
    /\ call = NoCall
    /\ G = NoGraph
    /\ cqm = NoCqm
    /\ sample = NoSample
    /\ results = NoResults

\* demo.py:152-160 with a sample set that holds a sample
RunCqmAndCollectSolutions ==
    /\ pc = "cqm"
    /\ \E ss \in SampleSets :
          /\ ss # <<>>
          /\ sampleset' = ss
          /\ ncalls' = ncalls + 1
          /\ LET feasible_sampleset == Filter(ss)
             IN  IF Len(feasible_sampleset) = 0
                 THEN /\ ret' \in First(ss)
                      /\ stdout' = <<"No feasible solution found. Returning best infeasible solution.">>
                 ELSE /\ ret' \in First(feasible_sampleset)
                      /\ stdout' = <<>>
    /\ pc' = "returned"
    /\ UNCHANGED <<argv, args, call, G, cqm, sample, results>>

\* demo.py:152-158 with an empty sample set: sampleset.first raises
RunCqmOnEmptySampleSet ==
    /\ pc = "cqm"
    /\ sampleset' = <<>>
    /\ ncalls' = ncalls + 1
    /\ stdout' = <<"No feasible solution found. Returning best infeasible solution.">>
    /\ pc' = "raised"
    /\ UNCHANGED <<argv, args, call, G, cqm, sample, results, ret>>

NextRun ==
    \/ RunCqmAndCollectSolutions
    \/ RunCqmOnEmptySampleSet

SpecRun == InitRun /\ [][NextRun]_vars

(***************************************************************************)
(* Claims about build_graph, checked under SpecGraph.                      *)
(***************************************************************************)
Printed(m) == \E i \in 1..Len(stdout) : stdout[i] = m

\* C1: whatever the graph type and the integers given for --nodes, --degree
\* and --new-edges, the node count build_graph passes to the generator is in
\* the type's range: 1000..1666 for internet, 1..1666 for rand-reg, ER, SF.
C1_NodeCountInRange ==
    pc = "graph" =>
        /\ call.fn = "random_internet_as_graph" => call.args[1] \in 1000..1666
        /\ call.fn = "random_regular_graph" => call.args[2] \in 1..1666
        /\ call.fn = "erdos_renyi_graph" => call.args[1] \in 1..1666
        /\ call.fn = "barabasi_albert_graph" => call.args[1] \in 1..1666

\* C2: in the rand-reg branch the values passed to random_regular_graph
\* satisfy 0 <= degree <= nodes-1 with nodes*degree even, for every pair
\* (nodes, degree) of the command line.
C2_RandRegCallValid ==
    (pc = "graph" /\ call.fn = "random_regular_graph") =>
        LET d == call.args[1]
            n == call.args[2]
        IN  /\ 0 <= d
            /\ d <= n - 1
            /\ (n * d) % 2 = 0

\* C3: in the SF branch the values passed to barabasi_albert_graph satisfy
\* 1 <= new_edges <= nodes, also when new_edges was replaced by 5.
C3_NewEdgesInRange ==
    (pc = "graph" /\ call.fn = "barabasi_albert_graph") =>
        LET n == call.args[1]
            m == call.args[2]
        IN  1 <= m /\ m <= n

\* C8: for internet, ER and SF the node count becomes exactly 1000 when it
\* is outside the type's range (below 1000 or above 1666 for internet, below
\* 1 or above 1666 for ER and SF) and is unchanged inside it; for karate no
\* parameter changes.
C8_NodeClampAndKarateFrame ==
    pc = "graph" =>
        /\ argv.graph = "internet" =>
              args.nodes = (IF argv.nodes < 1000 \/ argv.nodes > 1666
                            THEN 1000 ELSE argv.nodes)
        /\ argv.graph \in {"ER", "SF"} =>
              args.nodes = (IF argv.nodes < 1 \/ argv.nodes > 1666
                            THEN 1000 ELSE argv.nodes)
        /\ argv.graph = "karate" => args = argv

\* An internet graph was asked for with a node count just above 1666, and
\* the count was replaced by 1000.
C8_Witness ==
    /\ pc = "graph"
    /\ argv.graph = "internet"
    /\ argv.nodes = 1667
    /\ args.nodes = 1000
    /\ call.args = <<1000>>

SeqSet(q) == {q[i] : i \in 1..Len(q)}

InGroup(s, v, i) == s[Key(v, i)] = 1

\* The feasible set the claims describe: one variable per node, as many
\* nodes in group 0 as in group 1, no edge between two distinct nodes with
\* one end in group 0 and the other in group 1.
Intended(g, s) ==
    /\ OneHot(g, s)
    /\ Cardinality({v \in NodeSet(g) : InGroup(s, v, 0)})
          = Cardinality({v \in NodeSet(g) : InGroup(s, v, 1)})
    /\ \A e \in g.edges : \A u, v \in e :
          u # v => ~(InGroup(s, u, 0) /\ InGroup(s, v, 1))

\* C4: for every graph with node labels 0..n-1, a 0/1 assignment satisfies
\* all constraints of build_cqm(G) if and only if every node has exactly one
\* of its three variables set, group 0 and group 1 have the same size, and
\* no edge between distinct nodes joins group 0 to group 1 (self-loops
\* change nothing).
C4_FeasibleSetIsIntended ==
    pc \in {"sample", "done"} =>
        (Satisfies(cqm, sample) <=> Intended(G, sample))

\* C5: for every graph and every sample that satisfies all constraints of
\* build_cqm(G), process_sample returns an empty illegal_edges list.
C5_FeasibleHasNoIllegalEdges ==
    (pc = "done" /\ Satisfies(cqm, sample)) => results.illegal_edges = <<>>

\* The nodes reached from S along edges of g without entering Sep
RECURSIVE Reach(_, _, _, _)
Reach(g, S, Sep, k) ==
    IF k = 0 THEN S
    ELSE Reach(g,
               S \cup {v \in NodeSet(g) \ Sep : \E u \in S : {u, v} \in g.edges},
               Sep, k - 1)

\* C7: for every graph and every sample that satisfies all constraints of
\* build_cqm(G), sep_group is a separator: every path from a node of group_1
\* to a node of group_2 contains a node of sep_group.
C7_SepGroupSeparates ==
    (pc = "done" /\ Satisfies(cqm, sample)) =>
        LET Sep == SeqSet(results.sep_group)
            From == SeqSet(results.group_1) \ Sep
        IN  Reach(G, From, Sep, Len(G.nodes)) \cap SeqSet(results.group_2) = {}

\* C9: for every graph with node labels 0..n-1 and every sample with exactly
\* one of x_v_0, x_v_1, x_v_2 set per node, group_1, group_2 and sep_group
\* are pairwise disjoint, hold no duplicates, together hold every node of G
\* exactly once, and hold node v in the list of the category whose variable
\* is 1.
C9_ListsPartitionNodes ==
    (pc = "done" /\ OneHot(G, sample)) =>
        LET l0 == results.group_1
            l1 == results.group_2
            l2 == results.sep_group
        IN  /\ SeqSet(l0) \cap SeqSet(l1) = {}
            /\ SeqSet(l0) \cap SeqSet(l2) = {}
            /\ SeqSet(l1) \cap SeqSet(l2) = {}
            /\ Cardinality(SeqSet(l0)) = Len(l0)
            /\ Cardinality(SeqSet(l1)) = Len(l1)
            /\ Cardinality(SeqSet(l2)) = Len(l2)
            /\ SeqSet(l0) \cup SeqSet(l1) \cup SeqSet(l2) = NodeSet(G)
            /\ Len(l0) + Len(l1) + Len(l2) = Len(G.nodes)
            /\ \A v \in NodeSet(G) :
                  /\ InGroup(sample, v, 0) <=> v \in SeqSet(l0)
                  /\ InGroup(sample, v, 1) <=> v \in SeqSet(l1)
                  /\ InGroup(sample, v, 2) <=> v \in SeqSet(l2)

\* Three nodes, not in ascending order, one in each list.
C9_Witness ==
    /\ pc = "done"
    /\ G.nodes = <<0, 2, 1>>
    /\ OneHot(G, sample)
    /\ results.group_1 = <<2>>
    /\ results.group_2 = <<0>>
    /\ results.sep_group = <<1>>

(***************************************************************************)
(* Claims about run_cqm_and_collect_solutions, checked under SpecRun.      *)
(***************************************************************************)
Lowest(r, S) == r \in S /\ \A d \in S : r.energy <= d.energy

\* C6: run_cqm_and_collect_solutions calls the sampler exactly once and, for
\* every non-empty sample set, returns the best feasible sample when at
\* least one sample is feasible, and the best sample overall, an infeasible
\* one, only when none is.
C6_BestFeasibleElseBest ==
    pc = "returned" =>
        LET all == SeqSet(sampleset)
            feas == {d \in all : d.is_feasible}
        IN  /\ ncalls = 1
            /\ feas # {} => Lowest(ret, feas)
            /\ feas = {} => Lowest(ret, all)
            /\ ~ret.is_feasible <=> feas = {}

\* A feasible sample was returned although an infeasible one came first
\* with lower energy.
C6_Witness ==
    /\ pc = "returned"
    /\ Len(sampleset) = 3
    /\ ~sampleset[1].is_feasible /\ sampleset[1].energy = 0
    /\ sampleset[2].is_feasible /\ sampleset[2].energy = 1
    /\ sampleset[3].is_feasible /\ sampleset[3].energy = 2
    /\ ret = sampleset[2]
    /\ ncalls = 1

====
